---- MODULE Spec2Model ----
(***************************************************************************)
(* Descriptive statistics over a CSV table: column-type detection,         *)
(* per-column numeric and categorical statistics, grouping by key columns  *)
(* and key canonicalisation, as implemented by                             *)
(*   src/src/pure_python_stats.py  (standard library, "Pure")              *)
(*   src/pure_python_stats.py      (standard library, first version,       *)
(*                                  "Root")                                *)
(*   src/src/pandas_stats.py       (pandas)                                *)
(*   src/polars_stats.py           (polars)                                *)
(*                                                                         *)
(* A cell text is a sequence of one-character strings.  A number is held   *)
(* exactly, as an integer count of units of 10^-FracDigits, together with  *)
(* a kind that also covers inf, -inf, nan and None.                        *)
(***************************************************************************)
EXTENDS Integers, Sequences, FiniteSets, TLC

VARIABLES
    columns,   \* the header: the column names in file order
    rows,      \* the records csv.DictReader yields: column name -> cell text
    df,        \* the DataFrame pd.read_csv yields from the same file
    tieAway,   \* the decimal ties whose double rounds away from zero
    tieOrder,  \* the order this platform's value_counts leaves equal counts in
    op,        \* the call made last: its function and its key columns
    res,       \* what it returned or raised
    grouped,   \* the buckets of the last grouping call: key and row numbers
    out        \* the column lists of main and, per pass, its latest result

vars == <<columns, rows, df, tieAway, tieOrder, op, res, grouped, out>>

(***************************************************************************)
(* Bounds of the model.                                                    *)
(***************************************************************************)
\* decimal places a modelled number keeps (units of 10^-FracDigits)
FracDigits == 5
\* longest record sequence handed to the numeric functions
MaxNumRows == 3
\* longest free part of a record sequence handed to the categorical functions
MaxCatRows == 3
\* longest table handed to the grouping functions
MaxGroupRows == 2
\* longest free tail of a table handed to the column classifiers
MaxTailRows == 2
\* longest table of the pass-order specification
MaxPassRows == 2

(***************************************************************************)
(* Program constants.                                                      *)
(***************************************************************************)
\* round(..., 4)
Places == 4
\* sample_size = min(100, len(rows))
SampleLimit == 100
\* most_common(5), head(5)
TopN == 5

(***************************************************************************)
(* Generic helpers.                                                        *)
(***************************************************************************)
RECURSIVE Pow10(_)
Pow10(n) == IF n <= 0 THEN 1 ELSE 10 * Pow10(n - 1)

SetMin(S) == CHOOSE x \in S : \A y \in S : x <= y
SetMax(S) == CHOOSE x \in S : \A y \in S : x >= y
Abs(x) == IF x < 0 THEN -x ELSE x

Range(s) == {s[i] : i \in 1..Len(s)}

\* all sequences over S of length at most n
SeqsUpTo(S, n) == UNION {[1..k -> S] : k \in 0..n}

(***************************************************************************)
(* Text: str.strip() and float().                                          *)
(***************************************************************************)
DigitChars == {"0", "1", "2", "3", "4", "5", "6", "7", "8", "9"}

DigitVal(c) ==
    CASE c = "0" -> 0 [] c = "1" -> 1 [] c = "2" -> 2 [] c = "3" -> 3
      [] c = "4" -> 4 [] c = "5" -> 5 [] c = "6" -> 6 [] c = "7" -> 7
      [] c = "8" -> 8 [] c = "9" -> 9 [] OTHER -> 0

\* str.strip(): surrounding whitespace removed
Strip(s) ==
    LET keep == {i \in 1..Len(s) : s[i] # " "}
    IN IF keep = {} THEN <<>> ELSE SubSeq(s, SetMin(keep), SetMax(keep))

\* numbers: kind "fin" (v units of 10^-FracDigits), "inf", "ninf", "nan", "none"
Fin(v) == [k |-> "fin", v |-> v]
PosInf == [k |-> "inf", v |-> 0]
NegInf == [k |-> "ninf", v |-> 0]
NaN == [k |-> "nan", v |-> 0]
None == [k |-> "none", v |-> 0]
Unit == Pow10(FracDigits)

RECURSIVE DigitsValue(_)
DigitsValue(s) ==
    IF s = <<>> THEN 0
    ELSE 10 * DigitsValue(SubSeq(s, 1, Len(s) - 1)) + DigitVal(s[Len(s)])

\* the fraction digits f as units: the first FracDigits digits, right-padded
FracValue(f) ==
    IF Len(f) >= FracDigits THEN DigitsValue(SubSeq(f, 1, FracDigits))
    ELSE DigitsValue(f) * Pow10(FracDigits - Len(f))

\* float(text): [ok |-> whether it parses, x |-> the number].  Decimal
\* literals with an optional sign and the literals inf and nan are modelled;
\* exponents, underscores and other spellings are not among the cell sets.
NotANumber == [ok |-> FALSE, x |-> None]
Parsed(x) == [ok |-> TRUE, x |-> x]

\* integer digits ip and fraction digits fp
ParseDigits(neg, ip, fp) ==
    IF Len(ip) + Len(fp) = 0 THEN NotANumber
    ELSE IF \E i \in 1..Len(ip) : ip[i] \notin DigitChars THEN NotANumber
    ELSE IF \E i \in 1..Len(fp) : fp[i] \notin DigitChars THEN NotANumber
    ELSE IF neg THEN Parsed(Fin(-(DigitsValue(ip) * Unit + FracValue(fp))))
    ELSE Parsed(Fin(DigitsValue(ip) * Unit + FracValue(fp)))

\* a decimal literal whose points are at the positions dots
ParseDecimal(neg, body, dots) ==
    IF Cardinality(dots) > 1 THEN NotANumber
    ELSE IF dots = {} THEN ParseDigits(neg, body, <<>>)
    ELSE ParseDigits(neg, SubSeq(body, 1, SetMin(dots) - 1),
                     SubSeq(body, SetMin(dots) + 1, Len(body)))

ParseUnsigned(neg, body) ==
    IF body = <<"i", "n", "f">> THEN Parsed(IF neg THEN NegInf ELSE PosInf)
    ELSE IF body = <<"n", "a", "n">> THEN Parsed(NaN)
    ELSE ParseDecimal(neg, body, {i \in 1..Len(body) : body[i] = "."})

ParseStripped(s) ==
    IF s # <<>> /\ s[1] \in {"-", "+"}
    THEN ParseUnsigned(s[1] = "-", SubSeq(s, 2, Len(s)))
    ELSE ParseUnsigned(FALSE, s)

ParseFloat(text) == ParseStripped(Strip(text))

(***************************************************************************)
(* Arithmetic on numbers, and the statistics of a list of numbers.         *)
(***************************************************************************)
IsFin(x) == x.k = "fin"
AllFin(vals) == \A i \in 1..Len(vals) : IsFin(vals[i])

\* x <= y on floats: false as soon as either side is nan
NumLE(x, y) ==
    /\ x.k \in {"fin", "inf", "ninf"}
    /\ y.k \in {"fin", "inf", "ninf"}
    /\ \/ x.k = "ninf"
       \/ y.k = "inf"
       \/ x.k = "fin" /\ y.k = "fin" /\ x.v <= y.v

\* one unit of the last reported decimal place, in units
Grid == Pow10(FracDigits - Places)

\* round(num/den, 4), den > 0.  An exact decimal tie falls to the side on
\* which the binary double nearest to it lies: tieAway holds the tie points
\* (in half grid steps, by magnitude) whose double rounds away from zero.
RoundTo(num, den) ==
    LET g == Grid * den
        k == num \div g
        r == num - k * g
        away == Abs(2 * k + 1) \in tieAway
    IN  IF 2 * r < g THEN k * Grid
        ELSE IF 2 * r > g THEN (k + 1) * Grid
        ELSE IF k >= 0 THEN (IF away THEN (k + 1) * Grid ELSE k * Grid)
        ELSE (IF away THEN k * Grid ELSE (k + 1) * Grid)

\* round(x, 4) of a number
Round4(x) == IF IsFin(x) THEN Fin(RoundTo(x.v, 1)) ELSE x

RECURSIVE SumV(_)
SumV(vals) == IF vals = <<>> THEN 0 ELSE vals[1].v + SumV(Tail(vals))

RECURSIVE SumSq(_)
SumSq(vals) == IF vals = <<>> THEN 0 ELSE vals[1].v * vals[1].v + SumSq(Tail(vals))

\* the kind of a float sum of vals
SumKind(vals) ==
    LET ks == {vals[i].k : i \in 1..Len(vals)}
    IN  IF "nan" \in ks \/ {"inf", "ninf"} \subseteq ks THEN "nan"
        ELSE IF "inf" \in ks THEN "inf"
        ELSE IF "ninf" \in ks THEN "ninf"
        ELSE "fin"

\* a mean that divides by n - 1 (what MeanOf must not be)
MeanOverNMinus1(vals) ==
    IF SumKind(vals) # "fin" THEN [k |-> SumKind(vals), v |-> 0]
    ELSE IF Len(vals) = 1 THEN Fin(RoundTo(SumV(vals), 1))
    ELSE Fin(RoundTo(SumV(vals), Len(vals) - 1))

\* the arithmetic mean of a non-empty list, rounded to 4 places
MeanOf(vals) ==
    LET k == SumKind(vals)
    IN  IF k = "fin" THEN Fin(RoundTo(SumV(vals), Len(vals))) ELSE [k |-> k, v |-> 0]

\* sorted(vals), for lists without nan (or of length one)
Sorted(vals) == SortSeq(vals, LAMBDA a, b : NumLE(a, b) /\ a # b)

\* the median of a non-empty list, rounded to 4 places: the middle value,
\* or the mean of the two middle values
MedianOf(vals) ==
    LET s == Sorted(vals)
        n == Len(s)
    IN  IF n % 2 = 1 THEN Round4(s[(n + 1) \div 2])
        ELSE LET a == s[n \div 2]
                 b == s[n \div 2 + 1]
             IN  IF IsFin(a) /\ IsFin(b) THEN Fin(RoundTo(a.v + b.v, 2))
                 ELSE [k |-> SumKind(<<a, b>>), v |-> 0]

MinOf(vals) ==
    IF Len(vals) = 1 THEN vals[1]
    ELSE CHOOSE x \in Range(vals) : \A y \in Range(vals) : NumLE(x, y)

MaxOf(vals) ==
    IF Len(vals) = 1 THEN vals[1]
    ELSE CHOOSE x \in Range(vals) : \A y \in Range(vals) : NumLE(y, x)

\* the sample variance of a finite list of length n > 1 is VarNum / VarDen
VarNum(vals) == Len(vals) * SumSq(vals) - SumV(vals) * SumV(vals)
VarDen(vals) == Len(vals) * (Len(vals) - 1)

\* round(sqrt(N/D), 4) in units, N >= 0, D > 0
RoundSqrt(N, D) ==
    LET Below(k) == 4 * N < (2 * k + 1) * (2 * k + 1) * Grid * Grid * D
        RECURSIVE Find(_)
        Find(k) == IF Below(k) THEN k ELSE Find(k + 1)
        k0 == Find(0)
        tie == k0 > 0 /\ 4 * N = (2 * k0 - 1) * (2 * k0 - 1) * Grid * Grid * D
    IN  IF tie /\ (2 * k0 - 1) \notin tieAway THEN (k0 - 1) * Grid ELSE k0 * Grid

\* the sample standard deviation (divisor n - 1) of a finite list of
\* length n > 1, rounded to 4 places
StdevOf(vals) == Fin(RoundSqrt(VarNum(vals), VarDen(vals)))

(***************************************************************************)
(* Results of a call: a value, or the exception it raised.                 *)
(***************************************************************************)
Ok(v) == [exc |-> "none", val |-> v]
Raised(e) == [exc |-> e, val |-> <<>>]

EmptyNumericBundle ==
    [count |-> 0, mean |-> None, median |-> None, min |-> None, max |-> None,
     std_dev |-> None]

(***************************************************************************)
(* src/src/pure_python_stats.py: compute_numeric_stats.                    *)
(***************************************************************************)
\* the cells of column col that are non-blank and parse, as numbers, in order
NumericVals(rs, col) ==
    LET Good(i) == Strip(rs[i][col]) # <<>> /\ ParseFloat(rs[i][col]).ok
        RECURSIVE Build(_)
        Build(i) == IF i > Len(rs) THEN <<>>
                    ELSE (IF Good(i) THEN <<ParseFloat(rs[i][col]).x>> ELSE <<>>)
                         \o Build(i + 1)
    IN  Build(1)

\* a bundle computed without the guard for an empty list, statistics.mean
\* raising on it (what NumericBundle must not be)
NumericBundleNoGuard(vals) ==
    IF vals = <<>> THEN Raised("StatisticsError")
    ELSE IF Len(vals) > 1 /\ ~AllFin(vals) THEN Raised("AttributeError")
    ELSE Ok([count |-> Len(vals),
             mean |-> MeanOf(vals),
             median |-> MedianOf(vals),
             min |-> MinOf(vals),
             max |-> MaxOf(vals),
             std_dev |-> IF Len(vals) > 1 THEN StdevOf(vals) ELSE Fin(0)])

\* the bundle of one column; statistics.stdev raises AttributeError on a
\* list of two or more values holding inf or nan (CPython 3.11)
NumericBundle(vals) ==
    IF vals = <<>> THEN Ok(EmptyNumericBundle)
    ELSE IF Len(vals) > 1 /\ ~AllFin(vals) THEN Raised("AttributeError")
    ELSE Ok([count |-> Len(vals),
             mean |-> MeanOf(vals),
             median |-> MedianOf(vals),
             min |-> MinOf(vals),
             max |-> MaxOf(vals),
             std_dev |-> IF Len(vals) > 1 THEN StdevOf(vals) ELSE Fin(0)])

\* a dict built column by column: the first exception raised ends the call
\* (r[i] is what column cols[i] gives)
DictOf(cols, r) ==
    LET bad == {i \in 1..Len(cols) : r[i].exc # "none"}
    IN  IF bad # {} THEN Raised(r[SetMin(bad)].exc)
        ELSE Ok([c \in Range(cols) |-> r[CHOOSE i \in 1..Len(cols) : cols[i] = c].val])

compute_numeric_stats(rs, numeric_cols) ==
    DictOf(numeric_cols, [i \in 1..Len(numeric_cols) |->
                             NumericBundle(NumericVals(rs, numeric_cols[i]))])

(***************************************************************************)
(* src/pure_python_stats.py (Root): compute_numeric_stats.                 *)
(* No rounding: mean is the exact quotient num/den, std_dev the square     *)
(* root of the quotient sq_num/sq_den.                                     *)
(***************************************************************************)
RootValues(rs, col) == [i \in 1..Len(rs) |-> ParseFloat(rs[i][col])]

RootNumericBundle(ps) ==
    LET vals == [i \in 1..Len(ps) |-> ps[i].x]
        n == Len(vals)
    IN  IF \E i \in 1..n : ~ps[i].ok THEN Raised("ValueError")
        ELSE IF n = 0 THEN Raised("StatisticsError")
        ELSE IF n > 1 /\ ~AllFin(vals) THEN Raised("AttributeError")
        ELSE Ok([count |-> n,
                 mean |-> [k |-> SumKind(vals), num |-> SumV(vals), den |-> n],
                 min |-> MinOf(vals),
                 max |-> MaxOf(vals),
                 std_dev |-> IF n > 1
                             THEN [sq_num |-> VarNum(vals), sq_den |-> VarDen(vals)]
                             ELSE [sq_num |-> 0, sq_den |-> 1]])

root_compute_numeric_stats(rs, numeric_cols) ==
    DictOf(numeric_cols, [i \in 1..Len(numeric_cols) |->
                             RootNumericBundle(RootValues(rs, numeric_cols[i]))])

(***************************************************************************)
(* src/src/pure_python_stats.py: compute_categorical_stats.                *)
(***************************************************************************)
Str(s) == [k |-> "str", s |-> s]
NoStr == [k |-> "none", s |-> <<>>]

\* [r[col].strip() for r in rows if r[col].strip()]
CategoricalValues(rs, col) ==
    LET RECURSIVE Build(_)
        Build(i) == IF i > Len(rs) THEN <<>>
                    ELSE (IF Strip(rs[i][col]) # <<>> THEN <<Strip(rs[i][col])>> ELSE <<>>)
                         \o Build(i + 1)
    IN  Build(1)

\* the keys of collections.Counter(values): distinct values, by first appearance
RECURSIVE CounterKeys(_)
CounterKeys(values) ==
    IF values = <<>> THEN <<>>
    ELSE LET init == CounterKeys(SubSeq(values, 1, Len(values) - 1))
             last == values[Len(values)]
         IN  IF last \in Range(init) THEN init ELSE Append(init, last)

CountOf(values, v) == Cardinality({i \in 1..Len(values) : values[i] = v})

\* the first n of keys with their counts in values, by descending count;
\* keys of equal count stay in the order they have in keys
RankByCount(keys, values, n) ==
    LET RECURSIVE Pick(_, _)
        Pick(ks, m) ==
            IF m = 0 \/ ks = <<>> THEN <<>>
            ELSE LET top == SetMax({CountOf(values, ks[i]) : i \in 1..Len(ks)})
                     j == SetMin({i \in 1..Len(ks) : CountOf(values, ks[i]) = top})
                     rest == [i \in 1..(Len(ks) - 1) |->
                                 IF i < j THEN ks[i] ELSE ks[i + 1]]
                 IN  <<[value |-> ks[j], n |-> top]>> \o Pick(rest, m - 1)
    IN  Pick(keys, n)

\* Counter.most_common(n): max() keeps the first maximum in insertion order
\* and heapq.nlargest is stable, so ties stay in order of first appearance
MostCommon(values, n) == RankByCount(CounterKeys(values), values, n)

EmptyCategoricalBundle ==
    [unique_values |-> 0, mode |-> NoStr, mode_count |-> 0, total_count |-> 0]

\* a bundle with unique_values and total_count exchanged (what
\* CategoricalBundle must not be)
CategoricalBundleSwapped(values) ==
    IF values = <<>> THEN EmptyCategoricalBundle
    ELSE [unique_values |-> Len(values),
          mode |-> Str(MostCommon(values, 1)[1].value),
          mode_count |-> MostCommon(values, 1)[1].n,
          total_count |-> Len(CounterKeys(values)),
          top_5_values |-> MostCommon(values, TopN)]

CategoricalBundle(values) ==
    IF values = <<>> THEN EmptyCategoricalBundle
    ELSE [unique_values |-> Len(CounterKeys(values)),
          mode |-> Str(MostCommon(values, 1)[1].value),
          mode_count |-> MostCommon(values, 1)[1].n,
          total_count |-> Len(values),
          top_5_values |-> MostCommon(values, TopN)]

compute_categorical_stats(rs, categorical_cols) ==
    [c \in Range(categorical_cols) |-> CategoricalBundle(CategoricalValues(rs, c))]

(***************************************************************************)
(* detect_column_types.                                                    *)
(***************************************************************************)
\* the columns of header hd that are in S, in header order
RECURSIVE ColumnsIn(_, _)
ColumnsIn(hd, S) ==
    IF hd = <<>> THEN <<>>
    ELSE (IF hd[1] \in S THEN <<hd[1]>> ELSE <<>>) \o ColumnsIn(Tail(hd), S)

\* src/src/pure_python_stats.py: the rows inspected are the first
\* min(100, len(rows)); the scan of a column stops at the first non-blank
\* cell that does not parse
IsNumericColumn(rs, col) ==
    LET sample_size == IF Len(rs) < SampleLimit THEN Len(rs) ELSE SampleLimit
        nonblank == {i \in 1..sample_size : Strip(rs[i][col]) # <<>>}
        bad == {i \in nonblank : ~ParseFloat(Strip(rs[i][col])).ok}
        is_numeric == bad = {}
        non_empty_count == IF bad = {} THEN Cardinality(nonblank)
                           ELSE Cardinality({i \in nonblank : i <= SetMin(bad)})
    IN  is_numeric /\ non_empty_count > 0

detect_column_types(hd, rs) ==
    IF rs = <<>> THEN [numeric |-> <<>>, categorical |-> <<>>]
    ELSE [numeric |-> ColumnsIn(hd, {c \in Range(hd) : IsNumericColumn(rs, c)}),
          categorical |-> ColumnsIn(hd, {c \in Range(hd) : ~IsNumericColumn(rs, c)})]

\* src/pure_python_stats.py (Root): every row is inspected and float() is
\* applied to the raw cell, so a blank cell makes the column categorical
RootIsNumericColumn(rs, col) == \A i \in 1..Len(rs) : ParseFloat(rs[i][col]).ok

root_detect_column_types(hd, rs) ==
    IF rs = <<>> THEN [numeric |-> <<>>, categorical |-> <<>>]
    ELSE [numeric |-> ColumnsIn(hd, {c \in Range(hd) : RootIsNumericColumn(rs, c)}),
          categorical |-> ColumnsIn(hd, {c \in Range(hd) : ~RootIsNumericColumn(rs, c)})]

(***************************************************************************)
(* src/src/pure_python_stats.py: group_and_compute and stringify_keys.     *)
(* A dict is a sequence of entries [key, val] in insertion order.          *)
(***************************************************************************)
NullText == <<"N", "U", "L", "L">>

\* r.get(k, '').strip(), or 'NULL' when that is empty
KeyPart(r, k) ==
    LET val == Strip(IF k \in DOMAIN r THEN r[k] ELSE <<>>)
    IN  IF val # <<>> THEN val ELSE NullText

\* the key tuple of record r
GroupKey(r, keys) == [i \in 1..Len(keys) |-> KeyPart(r, keys[i])]

\* the positions of ks that hold key, ascending
RECURSIVE Positions(_, _)
Positions(ks, key) ==
    IF ks = <<>> THEN <<>>
    ELSE Positions(SubSeq(ks, 1, Len(ks) - 1), key)
         \o (IF ks[Len(ks)] = key THEN <<Len(ks)>> ELSE <<>>)

\* buckets that keep only the last record put in them (what Grouped must
\* not be)
GroupedLast(rs, keys) ==
    LET ks == [i \in 1..Len(rs) |-> GroupKey(rs[i], keys)]
        order == CounterKeys(ks)
        last == [j \in 1..Len(order) |-> SetMax({i \in 1..Len(rs) : ks[i] = order[j]})]
    IN  [j \in 1..Len(order) |->
            [key |-> order[j], idx |-> <<last[j]>>, grp |-> <<rs[last[j]]>>]]

\* one bucket per record, equal keys not merged (what Grouped must not be)
GroupedPerRecord(rs, keys) ==
    [i \in 1..Len(rs) |-> [key |-> GroupKey(rs[i], keys), idx |-> <<i>>, grp |-> <<rs[i]>>]]

\* the defaultdict grouped: one entry per key tuple, by first appearance,
\* holding the records appended under it, in order
Grouped(rs, keys) ==
    LET ks == [i \in 1..Len(rs) |-> GroupKey(rs[i], keys)]
        order == CounterKeys(ks)
        members == [j \in 1..Len(order) |-> Positions(ks, order[j])]
    IN  [j \in 1..Len(order) |->
            [key |-> order[j],
             idx |-> members[j],
             grp |-> [n \in 1..Len(members[j]) |-> rs[members[j][n]]]]]

\* the result dict; a call of compute_numeric_stats that raises ends it
group_and_compute(rs, keys, numeric_cols, categorical_cols) ==
    LET g == Grouped(rs, keys)
        num == [j \in 1..Len(g) |-> compute_numeric_stats(g[j].grp, numeric_cols)]
        bad == {j \in 1..Len(g) : num[j].exc # "none"}
    IN  IF bad # {} THEN Raised(num[SetMin(bad)].exc)
        ELSE Ok([j \in 1..Len(g) |->
                    [key |-> g[j].key,
                     val |-> [group_size |-> Len(g[j].grp),
                              numeric_stats |-> num[j].val,
                              categorical_stats |->
                                  compute_categorical_stats(g[j].grp, categorical_cols)]]])

\* a join without delimiter (what JoinKey must not be)
RECURSIVE JoinNoDelimiter(_)
JoinNoDelimiter(k) == IF k = <<>> THEN <<>> ELSE k[1] \o JoinNoDelimiter(Tail(k))

\* '|'.join(map(str, k))
RECURSIVE JoinKey(_)
JoinKey(k) ==
    IF k = <<>> THEN <<>>
    ELSE IF Len(k) = 1 THEN k[1]
    ELSE k[1] \o <<"|">> \o JoinKey(Tail(k))

\* new[new_key] = v on an insertion-ordered dict: a key already present keeps
\* its place and takes the new value
DictSet(d, key, val) ==
    IF \E i \in 1..Len(d) : d[i].key = key
    THEN [i \in 1..Len(d) |-> IF d[i].key = key THEN [key |-> key, val |-> val] ELSE d[i]]
    ELSE Append(d, [key |-> key, val |-> val])

stringify_keys(d) ==
    LET RECURSIVE Build(_)
        Build(n) == IF n = 0 THEN <<>>
                    ELSE DictSet(Build(n - 1), JoinKey(d[n].key), d[n].val)
    IN  Build(Len(d))

(***************************************************************************)
(* src/src/pandas_stats.py.  pd.read_csv types each column from its cells: *)
(* a cell is missing (NaN) when its text is empty or one of the default    *)
(* NA spellings; a column is int64, float64, bool or object.               *)
(***************************************************************************)
TrueText == <<"T", "r", "u", "e">>
FalseText == <<"F", "a", "l", "s", "e">>
NaTexts == {<<>>, <<"n", "a", "n">>, NullText}

IsIntText(t) == ParseFloat(t).ok /\ IsFin(ParseFloat(t).x) /\ "." \notin Range(t)

PandasDtype(rs, col) ==
    LET present == {i \in 1..Len(rs) : rs[i][col] \notin NaTexts}
        missing == {i \in 1..Len(rs) : rs[i][col] \in NaTexts}
    IN  IF rs = <<>> THEN "object"
        ELSE IF present = {} THEN "float64"
        ELSE IF missing = {} /\ \A i \in present : IsIntText(rs[i][col]) THEN "int64"
        ELSE IF \A i \in present : ParseFloat(rs[i][col]).ok THEN "float64"
        ELSE IF missing = {} /\ \A i \in present : rs[i][col] \in {TrueText, FalseText}
             THEN "bool"
        ELSE "object"

\* pd.read_csv(csv_path)
ReadCsv(hd, rs) ==
    [dtype |-> [c \in Range(hd) |-> PandasDtype(rs, c)],
     data |-> [i \in 1..Len(rs) |->
                  [c \in Range(hd) |-> [na |-> rs[i][c] \in NaTexts, s |-> rs[i][c]]]]]

\* select_dtypes(include=['number']) and
\* select_dtypes(include=['object', 'string', 'category'])
pandas_detect_column_types(hd, d) ==
    [numeric |-> ColumnsIn(hd, {c \in Range(hd) : d.dtype[c] \in {"int64", "float64"}}),
     categorical |-> ColumnsIn(hd, {c \in Range(hd) : d.dtype[c] \in {"object", "string", "category"}})]

\* df[col].dropna() of a numeric column, as numbers
PandasNumericVals(d, col) ==
    LET RECURSIVE Build(_)
        Build(i) == IF i > Len(d.data) THEN <<>>
                    ELSE (IF d.data[i][col].na THEN <<>>
                          ELSE <<ParseFloat(d.data[i][col].s).x>>) \o Build(i + 1)
    IN  Build(1)

\* describe() of a frame that holds a non-numeric column leaves that column
\* out (or, when no column is numeric, has no 'mean' row), and
\* desc_stats.loc[...] on it raises KeyError; std of a column holding inf
\* is nan
PandasNumericBundle(d, col) ==
    LET vals == PandasNumericVals(d, col)
    IN  IF d.dtype[col] \notin {"int64", "float64"} THEN Raised("KeyError")
        ELSE IF vals = <<>> THEN Ok(EmptyNumericBundle)
        ELSE Ok([count |-> Len(vals),
                 mean |-> MeanOf(vals),
                 median |-> MedianOf(vals),
                 min |-> MinOf(vals),
                 max |-> MaxOf(vals),
                 std_dev |-> IF Len(vals) > 1
                             THEN (IF AllFin(vals) THEN StdevOf(vals) ELSE NaN)
                             ELSE Fin(0)])

compute_numeric_stats_pandas(d, numeric_cols) ==
    DictOf(numeric_cols, [i \in 1..Len(numeric_cols) |->
                             PandasNumericBundle(d, numeric_cols[i])])

\* col_data = df[col].dropna(); col_data[col_data.astype(str).str.strip() != '']
\* (the values themselves are not stripped)
PandasCategoricalValues(d, col) ==
    LET RECURSIVE Build(_)
        Build(i) == IF i > Len(d.data) THEN <<>>
                    ELSE (IF d.data[i][col].na \/ Strip(d.data[i][col].s) = <<>> THEN <<>>
                          ELSE <<d.data[i][col].s>>) \o Build(i + 1)
    IN  Build(1)

Reverse(s) == [i \in 1..Len(s) |-> s[Len(s) + 1 - i]]

\* the orders Series.value_counts() may leave values of equal count in: it
\* sorts by count with an unstable sort (sort_values, kind='quicksort');
\* "first" keeps first appearance, "last" is the reverse of it
TieOrders == {"first", "last"}

\* col_data.value_counts(), the first n entries
ValueCounts(values, n, tie) ==
    RankByCount(IF tie = "first" THEN CounterKeys(values) ELSE Reverse(CounterKeys(values)),
                values, n)

PandasCategoricalBundle(values, tie) ==
    IF values = <<>> THEN EmptyCategoricalBundle
    ELSE [unique_values |-> Len(CounterKeys(values)),
          mode |-> Str(ValueCounts(values, 1, tie)[1].value),
          mode_count |-> ValueCounts(values, 1, tie)[1].n,
          total_count |-> Len(values),
          top_5_values |-> ValueCounts(values, TopN, tie)]

compute_categorical_stats_pandas(d, categorical_cols, tie) ==
    [c \in Range(categorical_cols) |->
        PandasCategoricalBundle(PandasCategoricalValues(d, c), tie)]

\* the order of str by code point, on the characters of the cell sets
CharCode(c) ==
    CASE c = " " -> 32 [] c = "+" -> 43 [] c = "-" -> 45 [] c = "." -> 46
      [] c \in DigitChars -> 48 + DigitVal(c)
      [] c = "F" -> 70 [] c = "L" -> 76 [] c = "N" -> 78 [] c = "T" -> 84
      [] c = "U" -> 85
      [] c = "a" -> 97 [] c = "b" -> 98 [] c = "c" -> 99 [] c = "d" -> 100
      [] c = "e" -> 101 [] c = "f" -> 102 [] c = "g" -> 103 [] c = "i" -> 105
      [] c = "l" -> 108 [] c = "n" -> 110 [] c = "r" -> 114 [] c = "s" -> 115
      [] c = "u" -> 117 [] c = "|" -> 124
      [] OTHER -> 127

RECURSIVE TextLess(_, _)
TextLess(a, b) ==
    IF b = <<>> THEN FALSE
    ELSE IF a = <<>> THEN TRUE
    ELSE IF a[1] # b[1] THEN CharCode(a[1]) < CharCode(b[1])
    ELSE TextLess(Tail(a), Tail(b))

RECURSIVE TupleLess(_, _)
TupleLess(a, b) ==
    IF b = <<>> THEN FALSE
    ELSE IF a = <<>> THEN TRUE
    ELSE IF a[1] # b[1] THEN TextLess(a[1], b[1])
    ELSE TupleLess(Tail(a), Tail(b))

\* df_grouped: the key columns of a copy of d become fillna('NULL').astype(str).
\* (The text of a numeric key column is str of the number; it is never
\* observed, the call raising KeyError for such a column.)
FillKeys(d, group_keys) ==
    [dtype |-> [c \in DOMAIN d.dtype |->
                   IF c \in Range(group_keys) THEN "object" ELSE d.dtype[c]],
     data |-> [i \in 1..Len(d.data) |->
                  [c \in DOMAIN d.dtype |->
                      IF c \in Range(group_keys)
                      THEN [na |-> FALSE,
                            s |-> IF d.data[i][c].na THEN NullText
                                  ELSE IF d.dtype[c] \in {"int64", "float64"}
                                       THEN Strip(d.data[i][c].s)
                                       ELSE d.data[i][c].s]
                      ELSE d.data[i][c]]]]

\* df_grouped.groupby(group_keys): one frame per key tuple, in sorted key order
PandasGroups(g, group_keys) ==
    LET ks == [i \in 1..Len(g.data) |-> [j \in 1..Len(group_keys) |-> g.data[i][group_keys[j]].s]]
        order == SortSeq(CounterKeys(ks), TupleLess)
        members == [j \in 1..Len(order) |-> Positions(ks, order[j])]
    IN  [j \in 1..Len(order) |->
            [key |-> order[j],
             idx |-> members[j],
             grp |-> [dtype |-> g.dtype,
                      data |-> [n \in 1..Len(members[j]) |-> g.data[members[j][n]]]]]]

\* the frame a call working on df itself would leave (what FrameAfterGroup
\* must not be)
FrameWithoutCopy(d, group_keys) == FillKeys(d, group_keys)

\* what the call leaves in the caller's frame: nothing is changed, the key
\* columns being rewritten on df.copy()
FrameAfterGroup(d, group_keys) == d

group_and_compute_pandas(d, group_keys, numeric_cols, categorical_cols, tie) ==
    IF \E j \in 1..Len(group_keys) : group_keys[j] \notin DOMAIN d.dtype
    THEN Raised("KeyError")
    ELSE IF group_keys = <<>> THEN Raised("ValueError")
    ELSE LET g == PandasGroups(FillKeys(d, group_keys), group_keys)
             num == [j \in 1..Len(g) |->
                        compute_numeric_stats_pandas(g[j].grp, numeric_cols)]
             bad == {j \in 1..Len(g) : num[j].exc # "none"}
         IN  IF bad # {} THEN Raised(num[SetMin(bad)].exc)
             ELSE Ok([j \in 1..Len(g) |->
                         [key |-> g[j].key,
                          val |-> [group_size |-> Len(g[j].grp.data),
                                   numeric_stats |-> num[j].val,
                                   categorical_stats |->
                                       compute_categorical_stats_pandas(
                                           g[j].grp, categorical_cols, tie)]]])

(***************************************************************************)
(* src/polars_stats.py: the column lists of main.  pl.read_csv types each  *)
(* column Int64, Float64, Boolean or String; an empty cell is null.        *)
(***************************************************************************)
PolarsDtype(rs, col) ==
    LET present == {i \in 1..Len(rs) : rs[i][col] # <<>>}
    IN  IF present = {} THEN "String"
        ELSE IF \A i \in present : IsIntText(rs[i][col]) THEN "Int64"
        ELSE IF \A i \in present : ParseFloat(rs[i][col]).ok THEN "Float64"
        ELSE IF \A i \in present : rs[i][col] \in {<<"t", "r", "u", "e">>,
                                                   <<"f", "a", "l", "s", "e">>}
             THEN "Boolean"
        ELSE "String"

polars_column_types(hd, rs) ==
    LET numeric_cols == ColumnsIn(hd, {c \in Range(hd) : PolarsDtype(rs, c) \in {"Int64", "Float64"}})
    IN  [numeric |-> numeric_cols,
         categorical |-> ColumnsIn(hd, {c \in Range(hd) : c \notin Range(numeric_cols)})]

(***************************************************************************)
(* Cell texts and tables the functions are run on.                         *)
(***************************************************************************)
Blank == <<>>
Space == <<" ">>
TxtA == <<"a">>
TxtB == <<"b">>
TxtSpA == <<" ", "a">>
TxtPipe == <<"a", "|", "a">>
TxtOne == <<"1">>
TxtOneHalf == <<"1", ".", "5">>
TxtZero == <<"0">>
TxtE5x1 == <<"0", ".", "0", "0", "0", "0", "1">>
TxtE5x2 == <<"0", ".", "0", "0", "0", "0", "2">>
TxtE5x5 == <<" ", "0", ".", "0", "0", "0", "0", "5">>
TxtNegE5x15 == <<"-", "0", ".", "0", "0", "0", "1", "5">>
TxtE4x1 == <<"0", ".", "0", "0", "0", "1">>
TxtC == <<"c">>
TxtInf == <<"i", "n", "f">>
TxtNan == <<"n", "a", "n">>

\* a call: the function, the implementation it belongs to, and the key
\* columns and column list it was given
NoCall == [fn |-> "load", impl |-> "none", keys |-> <<>>, cols |-> <<>>]
Call(fn, impl, keys, cs) == [fn |-> fn, impl |-> impl, keys |-> keys, cols |-> cs]
NotRun == [exc |-> "not run", val |-> <<>>]

\* the state main is in once the file is loaded
Loaded(hd, rs) ==
    /\ columns = hd
    /\ rows = rs
    /\ df = ReadCsv(hd, rs)
    /\ op = NoCall
    /\ res = Ok(<<>>)
    /\ grouped = <<>>
    /\ out = <<>>

(***************************************************************************)
(* Column classification: the four implementations on one table.           *)
(***************************************************************************)
TypeHeaders == {<<"page_id", "spend">>, <<"spend", "page_id">>}
TypeRows == [page_id : {Blank, TxtOne, TxtA, TrueText}, spend : {TxtOneHalf, TxtA}]
PadRows == [page_id : {Blank, TxtOne}, spend : {TxtOneHalf}]
PadLengths == {0, SampleLimit - 1}

\* n copies of row r, then the free rows
TypeTables ==
    {[i \in 1..n |-> r] \o t : n \in PadLengths, r \in PadRows,
                                t \in SeqsUpTo(TypeRows, MaxTailRows)}

InitTypes ==
    /\ \E hd \in TypeHeaders, rs \in TypeTables : Loaded(hd, rs)
    /\ tieAway = {}
    /\ tieOrder = "first"

DetectColumnTypes ==
    /\ op' = Call("detect_column_types", "pure", <<>>, <<>>)
    /\ res' = Ok(detect_column_types(columns, rows))
    /\ UNCHANGED <<columns, rows, df, tieAway, tieOrder, grouped, out>>

RootDetectColumnTypes ==
    /\ op' = Call("detect_column_types", "root", <<>>, <<>>)
    /\ res' = Ok(root_detect_column_types(columns, rows))
    /\ UNCHANGED <<columns, rows, df, tieAway, tieOrder, grouped, out>>

PandasDetectColumnTypes ==
    /\ op' = Call("detect_column_types", "pandas", <<>>, <<>>)
    /\ res' = Ok(pandas_detect_column_types(columns, df))
    /\ UNCHANGED <<columns, rows, df, tieAway, tieOrder, grouped, out>>

PolarsColumnTypes ==
    /\ op' = Call("detect_column_types", "polars", <<>>, <<>>)
    /\ res' = Ok(polars_column_types(columns, rows))
    /\ UNCHANGED <<columns, rows, df, tieAway, tieOrder, grouped, out>>

NextTypes ==
    \/ DetectColumnTypes
    \/ RootDetectColumnTypes
    \/ PandasDetectColumnTypes
    \/ PolarsColumnTypes

SpecTypes == InitTypes /\ [][NextTypes]_vars

(***************************************************************************)
(* C1, C8: column classification.                                          *)
(***************************************************************************)
Classified(impl) == op.fn = "detect_column_types" /\ op.impl = impl /\ rows # <<>>

IsPartition(r) ==
    /\ Range(r.numeric) \cap Range(r.categorical) = {}
    /\ Range(r.numeric) \cup Range(r.categorical) = Range(columns)

\* C1: in every implementation, the numeric and the categorical columns
\* returned for a table are disjoint and together are all its columns.
C1_Partition ==
    \A impl \in {"pure", "pandas", "polars"} : Classified(impl) => IsPartition(res.val)

\* C1 on the standard-library and polars implementations alone
C1_PartitionPurePolars ==
    \A impl \in {"pure", "polars"} : Classified(impl) => IsPartition(res.val)

\* the rule of C8 for one column, in the claim's words: among the first
\* min(100, n) rows, some cell is non-blank and every non-blank cell parses
InspectedNumeric(c) ==
    LET m == IF Len(rows) < SampleLimit THEN Len(rows) ELSE SampleLimit
        nonblank == {i \in 1..m : Strip(rows[i][c]) # <<>>}
    IN  nonblank # {} /\ \A i \in nonblank : ParseFloat(rows[i][c]).ok

FollowsRule(r) ==
    /\ r.numeric = ColumnsIn(columns, {c \in Range(columns) : InspectedNumeric(c)})
    /\ r.categorical = ColumnsIn(columns, {c \in Range(columns) : ~InspectedNumeric(c)})

\* C8: detect_column_types lists a column as numeric iff, among the rows it
\* inspects, the column has a non-blank cell and every non-blank cell
\* parses; every other column is categorical; both lists are in header order.
C8_Rule == \A impl \in {"pure", "root"} : Classified(impl) => FollowsRule(res.val)

\* C8 on src/src/pure_python_stats.py alone
C8_RulePure == Classified("pure") => FollowsRule(res.val)

(***************************************************************************)
(* Numeric statistics: the three implementations on one record set.        *)
(***************************************************************************)
NumCells == {Blank, Space, TxtA, TxtE5x1, TxtE5x2, TxtE5x5, TxtNegE5x15, TxtInf, TxtNan}
TiePoints == {1, 3}

InitNum ==
    /\ \E rs \in SeqsUpTo([spend : NumCells], MaxNumRows) : Loaded(<<"spend">>, rs)
    /\ tieAway \in SUBSET TiePoints
    /\ tieOrder = "first"

\* compute_numeric_stats on the records, every column listed as numeric
ComputeNumericStats ==
    /\ \E nc \in {<<>>, columns} :
          /\ op' = Call("compute_numeric_stats", "pure", <<>>, nc)
          /\ res' = compute_numeric_stats(rows, nc)
    /\ UNCHANGED <<columns, rows, df, tieAway, tieOrder, grouped, out>>

RootComputeNumericStats ==
    /\ \E nc \in {<<>>, columns} :
          /\ op' = Call("compute_numeric_stats", "root", <<>>, nc)
          /\ res' = root_compute_numeric_stats(rows, nc)
    /\ UNCHANGED <<columns, rows, df, tieAway, tieOrder, grouped, out>>

\* compute_numeric_stats_pandas on the frame, with the numeric columns
\* detect_column_types gives main
ComputeNumericStatsPandas ==
    /\ LET nc == pandas_detect_column_types(columns, df).numeric
       IN  /\ op' = Call("compute_numeric_stats", "pandas", <<>>, nc)
           /\ res' = compute_numeric_stats_pandas(df, nc)
    /\ UNCHANGED <<columns, rows, df, tieAway, tieOrder, grouped, out>>

NextNum ==
    \/ ComputeNumericStats
    \/ RootComputeNumericStats
    \/ ComputeNumericStatsPandas

SpecNum == InitNum /\ [][NextNum]_vars

\* the same functions on cells that are blank, unparsable or finite numbers
FiniteCells == {Blank, TxtA, TxtE5x1, TxtE5x2, TxtE5x5, TxtNegE5x15}

InitNumFinite ==
    /\ \E rs \in SeqsUpTo([spend : FiniteCells], MaxNumRows) :
          Loaded(<<"spend">>, rs)
    /\ tieAway \in SUBSET TiePoints
    /\ tieOrder = "first"

SpecNumFinite == InitNumFinite /\ [][NextNum]_vars

(***************************************************************************)
(* C3, C4: numeric bundles.                                                *)
(***************************************************************************)
NumericRan(impl) == op.fn = "compute_numeric_stats" /\ op.impl = impl

\* the number of cells of column c that are non-blank and parse as a number
ParsableCount(c) ==
    Cardinality({i \in 1..Len(rows) :
                    Strip(rows[i][c]) # <<>> /\ ParseFloat(rows[i][c]).ok})

SkipsAndCounts ==
    /\ res.exc = "none"
    /\ \A c \in Range(op.cols) : res.val[c].count = ParsableCount(c)

\* C3: compute_numeric_stats never raises, whatever the cells of a column
\* listed as numeric, and reports as count the number of cells that are
\* non-blank and parse as a number.
C3_NeverRaises == \A impl \in {"pure", "root"} : NumericRan(impl) => SkipsAndCounts

\* C3 on src/src/pure_python_stats.py alone: its compute_numeric_stats
\* never raises and reports as count the number of cells that are non-blank
\* and parse as a number.
C3_PureNeverRaises == NumericRan("pure") => SkipsAndCounts

\* C3 for cells that are blank, unparsable or finite decimal numbers, on
\* src/src/pure_python_stats.py alone
C3_PureFiniteCells ==
    (NumericRan("pure") /\ \A i \in 1..Len(rows) : rows[i].spend \notin {TxtInf, TxtNan})
        => SkipsAndCounts

\* the bundles reported with count > 1
BundlesOver1 ==
    IF res.exc = "none"
    THEN {res.val[c] : c \in {c \in Range(op.cols) : res.val[c].count > 1}}
    ELSE {}

\* C4: in every numeric bundle with count > 1 the reported values satisfy
\* min <= mean <= max, min <= median <= max and std_dev >= 0.
C4_Ordered ==
    \A impl \in {"pure", "pandas"} : NumericRan(impl) =>
        \A b \in BundlesOver1 :
            /\ NumLE(b.min, b.mean) /\ NumLE(b.mean, b.max)
            /\ NumLE(b.min, b.median) /\ NumLE(b.median, b.max)
            /\ NumLE(Fin(0), b.std_dev)

\* C4 as amended: in every numeric bundle with count > 1 over finite values,
\* mean and median lie between min and max rounded to 4 places as they are,
\* and std_dev >= 0.
C4_OrderedUpToRounding ==
    \A impl \in {"pure", "pandas"} : NumericRan(impl) =>
        \A b \in BundlesOver1 : (IsFin(b.min) /\ IsFin(b.max)) =>
            /\ NumLE(Round4(b.min), b.mean) /\ NumLE(b.mean, Round4(b.max))
            /\ NumLE(Round4(b.min), b.median) /\ NumLE(b.median, Round4(b.max))
            /\ NumLE(Fin(0), b.std_dev)

\* a bundle with count > 1 whose rounded mean has left the interval [min, max]
C4_Witness ==
    /\ NumericRan("pure")
    /\ \E b \in BundlesOver1 : IsFin(b.min) /\ ~NumLE(b.min, b.mean) /\ b.max.v > b.min.v

(***************************************************************************)
(* Categorical statistics: the two implementations on one record set.      *)
(***************************************************************************)
CatCells == {Blank, Space, TxtA, TxtSpA, TxtB, TxtC}

\* five further values, each once
Block == <<[ad_id |-> <<"c">>], [ad_id |-> <<"d">>], [ad_id |-> <<"e">>],
           [ad_id |-> <<"f">>], [ad_id |-> <<"g">>]>>

CatTables ==
    LET free == SeqsUpTo([ad_id : CatCells], MaxCatRows)
    IN  free \cup {t \o Block : t \in free} \cup {Block \o t : t \in free}

InitCat ==
    /\ \E rs \in CatTables : Loaded(<<"ad_id">>, rs)
    /\ tieAway = {}
    /\ tieOrder \in TieOrders

ComputeCategoricalStats ==
    /\ \E cc \in {<<>>, columns} :
          /\ op' = Call("compute_categorical_stats", "pure", <<>>, cc)
          /\ res' = Ok(compute_categorical_stats(rows, cc))
    /\ UNCHANGED <<columns, rows, df, tieAway, tieOrder, grouped, out>>

\* compute_categorical_stats_pandas on the frame, with the categorical
\* columns detect_column_types gives main
ComputeCategoricalStatsPandas ==
    /\ LET cc == pandas_detect_column_types(columns, df).categorical
       IN  /\ op' = Call("compute_categorical_stats", "pandas", <<>>, cc)
           /\ res' = Ok(compute_categorical_stats_pandas(df, cc, tieOrder))
    /\ UNCHANGED <<columns, rows, df, tieAway, tieOrder, grouped, out>>

NextCat ==
    \/ ComputeCategoricalStats
    \/ ComputeCategoricalStatsPandas

SpecCat == InitCat /\ [][NextCat]_vars

\* the same on a platform whose value_counts keeps equal counts in order of
\* first appearance
InitCatStable ==
    /\ \E rs \in CatTables : Loaded(<<"ad_id">>, rs)
    /\ tieAway = {}
    /\ tieOrder = "first"

SpecCatStable == InitCatStable /\ [][NextCat]_vars

(***************************************************************************)
(* C5, C9: categorical bundles.                                            *)
(***************************************************************************)
CategoricalRan(impl) == op.fn = "compute_categorical_stats" /\ op.impl = impl

CatBundles == {res.val[c] : c \in Range(op.cols)}

\* C5: in every categorical bundle mode_count <= total_count, mode_count >= 1
\* whenever total_count > 0, and unique_values is a positive integer bounded
\* by total_count.
C5_Bounds ==
    \A impl \in {"pure", "pandas"} : CategoricalRan(impl) =>
        \A b \in CatBundles :
            /\ b.mode_count <= b.total_count
            /\ b.total_count > 0 => b.mode_count >= 1
            /\ b.unique_values >= 1
            /\ b.unique_values <= b.total_count

\* C5 as amended: in every categorical bundle mode_count <= total_count and
\* 0 <= unique_values <= total_count, and whenever total_count > 0 both
\* mode_count >= 1 and unique_values >= 1.
C5_BoundsNonEmpty ==
    \A impl \in {"pure", "pandas"} : CategoricalRan(impl) =>
        \A b \in CatBundles :
            /\ b.mode_count <= b.total_count
            /\ b.unique_values >= 0
            /\ b.unique_values <= b.total_count
            /\ b.total_count > 0 => (b.mode_count >= 1 /\ b.unique_values >= 1)

\* a column with no non-blank value has been given its bundle
C5_Witness ==
    /\ CategoricalRan("pure")
    /\ rows # <<>>
    /\ \E b \in CatBundles : b.total_count = 0 /\ b.unique_values = 0

\* the non-blank values of column c, trimmed, in record order
TrimmedValues(c) ==
    LET nonblank == {i \in 1..Len(rows) : Strip(rows[i][c]) # <<>>}
        RECURSIVE Build(_)
        Build(I) == IF I = {} THEN <<>>
                    ELSE <<Strip(rows[SetMin(I)][c])>> \o Build(I \ {SetMin(I)})
    IN  Build(nonblank)

Freq(vs, v) == Cardinality({i \in 1..Len(vs) : vs[i] = v})
FirstAt(vs, v) == SetMin({i \in 1..Len(vs) : vs[i] = v})

\* u ranks before v: more frequent, or as frequent and seen first
RanksBefore(vs, u, v) ==
    \/ Freq(vs, u) > Freq(vs, v)
    \/ Freq(vs, u) = Freq(vs, v) /\ FirstAt(vs, u) < FirstAt(vs, v)

ModeAndTop5(b, vs) ==
    LET top == b.top_5_values
        listed == {top[i].value : i \in 1..Len(top)}
        nuniq == Cardinality(Range(vs))
    IN  /\ b.mode.k = "str"
        /\ b.mode.s \in Range(vs)
        /\ \A v \in Range(vs) \ {b.mode.s} : RanksBefore(vs, b.mode.s, v)
        /\ Len(top) = (IF nuniq < TopN THEN nuniq ELSE TopN)
        /\ listed \subseteq Range(vs)
        /\ \A i \in 1..Len(top) : top[i].n = Freq(vs, top[i].value)
        /\ \A i, j \in 1..Len(top) : i < j => RanksBefore(vs, top[i].value, top[j].value)
        /\ \A v \in Range(vs) \ listed : \A u \in listed : RanksBefore(vs, u, v)
        /\ top[1] = [value |-> b.mode.s, n |-> b.mode_count]

\* C9: for a categorical column with a non-blank value, mode is the most
\* frequent value, the first seen among equals; top_5_values lists the
\* min(5, unique_values) most frequent values with their frequencies, by
\* descending frequency, equals by first appearance, and starts with
\* (mode, mode_count).
C9_ModeAndTop5 ==
    \A impl \in {"pure", "pandas"} : CategoricalRan(impl) =>
        \A c \in Range(op.cols) :
            TrimmedValues(c) # <<>> => ModeAndTop5(res.val[c], TrimmedValues(c))

\* C9 on src/src/pure_python_stats.py alone
C9_ModeAndTop5Pure ==
    CategoricalRan("pure") =>
        \A c \in Range(op.cols) :
            TrimmedValues(c) # <<>> => ModeAndTop5(res.val[c], TrimmedValues(c))

(***************************************************************************)
(* Grouping and key canonicalisation, as main runs them: group_and_compute *)
(* with the column lists of detect_column_types, then stringify_keys.      *)
(***************************************************************************)
GroupHeader == <<"page_id", "ad_id", "spend">>
GroupRows == [page_id : {Blank, TxtA, TxtSpA, TxtPipe}, ad_id : {TxtA, TxtPipe},
              spend : {TxtE4x1}]
KeyLists == {<<>>, <<"page_id">>, <<"page_id", "ad_id">>, <<"campaign">>}

\* no group of these tables holds a decimal tie, and the order value_counts
\* leaves equal counts in is studied on the categorical record sets
InitGroup ==
    /\ \E rs \in SeqsUpTo(GroupRows, MaxGroupRows) : Loaded(GroupHeader, rs)
    /\ tieAway = {}
    /\ tieOrder = "first"

\* the keys and row numbers of a sequence of buckets
Buckets(g) == [j \in 1..Len(g) |-> [key |-> g[j].key, idx |-> g[j].idx]]

GroupAndCompute ==
    /\ \E keys \in KeyLists :
          LET t == detect_column_types(columns, rows)
          IN  /\ op' = Call("group_and_compute", "pure", keys, <<>>)
              /\ res' = group_and_compute(rows, keys, t.numeric, t.categorical)
              /\ grouped' = Buckets(Grouped(rows, keys))
    /\ UNCHANGED <<columns, rows, df, tieAway, tieOrder, out>>

GroupAndComputePandas ==
    /\ \E keys \in KeyLists :
          LET t == pandas_detect_column_types(columns, df)
              r == group_and_compute_pandas(df, keys, t.numeric, t.categorical, tieOrder)
          IN  /\ op' = Call("group_and_compute", "pandas", keys, <<>>)
              /\ res' = r
              /\ grouped' = IF r.exc = "none"
                            THEN Buckets(PandasGroups(FillKeys(df, keys), keys))
                            ELSE <<>>
              /\ df' = FrameAfterGroup(df, keys)
    /\ UNCHANGED <<columns, rows, tieAway, tieOrder, out>>

\* by_page = stringify_keys(by_page)
StringifyKeys ==
    /\ op.fn = "group_and_compute"
    /\ res.exc = "none"
    /\ op' = [op EXCEPT !.fn = "stringify_keys"]
    /\ res' = Ok(stringify_keys(res.val))
    /\ UNCHANGED <<columns, rows, df, tieAway, tieOrder, grouped, out>>

NextGroup ==
    \/ GroupAndCompute
    \/ GroupAndComputePandas
    \/ StringifyKeys

SpecGroup == InitGroup /\ [][NextGroup]_vars

(***************************************************************************)
(* C2, C6, C7: groups, their sizes and their canonical keys.               *)
(***************************************************************************)
GroupRan(impl) == op.fn = "group_and_compute" /\ op.impl = impl /\ res.exc = "none"
Serialized(impl) == op.fn = "stringify_keys" /\ op.impl = impl

\* the normalized Group Key of record r: its key-column values in order, each
\* trimmed, "NULL" standing for a blank or missing one
NormalizedKey(r, keys) ==
    [i \in 1..Len(keys) |->
        IF keys[i] \notin DOMAIN r THEN NullText
        ELSE IF Strip(r[keys[i]]) = <<>> THEN NullText
        ELSE Strip(r[keys[i]])]

\* the distinct normalized key tuples among the records
KeyTuples == {NormalizedKey(rows[i], op.keys) : i \in 1..Len(rows)}

\* the elements of tuple t joined with "|"
RECURSIVE PipeJoined(_)
PipeJoined(t) ==
    IF t = <<>> THEN <<>>
    ELSE IF Len(t) = 1 THEN t[1]
    ELSE PipeJoined(SubSeq(t, 1, Len(t) - 1)) \o <<"|">> \o t[Len(t)]

RECURSIVE SumSizes(_)
SumSizes(d) == IF d = <<>> THEN 0 ELSE d[1].val.group_size + SumSizes(Tail(d))

\* no two groups of the call have keys with the same joined string
JoinInjective ==
    \A j, k \in 1..Len(grouped) :
        PipeJoined(grouped[j].key) = PipeJoined(grouped[k].key) => j = k

\* C2: the sum of group_size over the entries of the Result Collection after
\* stringify_keys equals the number of records of the table.
C2_SumEqualsRecords ==
    \A impl \in {"pure", "pandas"} : Serialized(impl) => SumSizes(res.val) = Len(rows)

\* C2 as amended: the sum of group_size over the entries group_and_compute
\* returns equals the number of records; after stringify_keys the sum never
\* exceeds it, and equals it whenever no two group keys join to the same
\* string.
C2_SumUpToCollision ==
    \A impl \in {"pure", "pandas"} :
        /\ GroupRan(impl) => SumSizes(res.val) = Len(rows)
        /\ Serialized(impl) => SumSizes(res.val) <= Len(rows)
        /\ (Serialized(impl) /\ JoinInjective) => SumSizes(res.val) = Len(rows)

\* two records of one group have been counted in one serialized entry
C2_Witness ==
    /\ Serialized("pure")
    /\ op.keys = <<"page_id">>
    /\ Len(rows) = 2
    /\ Len(res.val) = 1
    /\ res.val[1].val.group_size = 2

\* the group result of key tuple t, from the records that have it
ExpectedGroup(t) ==
    LET recs == [n \in 1..Len(Positions([i \in 1..Len(rows) |->
                                            NormalizedKey(rows[i], op.keys)], t)) |->
                    rows[Positions([i \in 1..Len(rows) |->
                                       NormalizedKey(rows[i], op.keys)], t)[n]]]
        ty == detect_column_types(columns, rows)
    IN  [group_size |-> Len(recs),
         numeric_stats |-> compute_numeric_stats(recs, ty.numeric).val,
         categorical_stats |-> compute_categorical_stats(recs, ty.categorical)]

\* C6: after stringify_keys the Result Collection has exactly one entry per
\* distinct normalized key tuple, keyed by the tuple's elements joined with
\* "|" and holding that tuple's group result.
C6_EntryPerTuple ==
    Serialized("pure") =>
        /\ Len(res.val) = Cardinality(KeyTuples)
        /\ \A t \in KeyTuples : \E j \in 1..Len(res.val) :
              res.val[j] = [key |-> PipeJoined(t), val |-> ExpectedGroup(t)]

\* C6 as amended: after stringify_keys the Result Collection has exactly one
\* entry per distinct "|"-joined string of the normalized key tuples, each
\* holding the group result of a tuple that joins to its key.
C6_EntryPerJoinedKey ==
    Serialized("pure") =>
        /\ Len(res.val) = Cardinality({PipeJoined(t) : t \in KeyTuples})
        /\ {res.val[j].key : j \in 1..Len(res.val)} = {PipeJoined(t) : t \in KeyTuples}
        /\ \A j \in 1..Len(res.val) : \E t \in KeyTuples :
              res.val[j] = [key |-> PipeJoined(t), val |-> ExpectedGroup(t)]

\* a composite grouping with two distinct key tuples has been serialized
C6_Witness ==
    /\ Serialized("pure")
    /\ Len(op.keys) = 2
    /\ Cardinality(KeyTuples) = 2
    /\ Len(res.val) = 2

\* the buckets are those of the normalized keys: one per distinct tuple, each
\* holding exactly the records that have its tuple
GroupsByNormalizedKey ==
    /\ Len(grouped) = Cardinality(KeyTuples)
    /\ {grouped[j].key : j \in 1..Len(grouped)} = KeyTuples
    /\ \A j \in 1..Len(grouped) :
          /\ Len(grouped[j].idx) = Cardinality(Range(grouped[j].idx))
          /\ Range(grouped[j].idx) =
                {i \in 1..Len(rows) : NormalizedKey(rows[i], op.keys) = grouped[j].key}

\* C7: in group_and_compute the Group Key of a record is the tuple of its
\* key-column values, trimmed, "NULL" for blank or missing; records share a
\* group iff their tuples are equal, and each bucket holds exactly the
\* records of its tuple.
C7_Groups == \A impl \in {"pure", "pandas"} : GroupRan(impl) => GroupsByNormalizedKey

\* C7 on src/src/pure_python_stats.py alone
C7_GroupsPure == GroupRan("pure") => GroupsByNormalizedKey

(***************************************************************************)
(* C11: the overall statistics as a grouping with no key column.           *)
(***************************************************************************)
\* the column lists main computes for the table
MainColumns == detect_column_types(columns, rows)

\* group_and_compute has run on the table with an empty key list
ZeroKeyRan == GroupRan("pure") /\ op.keys = <<>>

\* the one group of all records, holding the overall bundle maps
IsOverallGroup(d) ==
    /\ Len(d) = 1
    /\ d[1].key = <<>>
    /\ d[1].val.group_size = Len(rows)
    /\ d[1].val.numeric_stats = compute_numeric_stats(rows, MainColumns.numeric).val
    /\ d[1].val.categorical_stats = compute_categorical_stats(rows, MainColumns.categorical)

\* C11: for every table, group_and_compute with no key column yields exactly
\* one group, of all the records, whose numeric_stats and categorical_stats
\* are the overall numeric and categorical bundle maps.
C11_OverallIsZeroKeyGroup == ZeroKeyRan => IsOverallGroup(res.val)

\* C11 as amended: for every table with at least one record,
\* group_and_compute with no key column yields exactly one group, of all the
\* records, whose numeric_stats and categorical_stats are the overall bundle
\* maps; for the table without records it yields no group at all.
C11_OverallIsZeroKeyGroupNonEmpty ==
    ZeroKeyRan => IF rows = <<>> THEN res.val = <<>> ELSE IsOverallGroup(res.val)

\* two records have been put in the one group of the empty key list
C11_Witness ==
    /\ ZeroKeyRan
    /\ Len(rows) = 2
    /\ Len(res.val) = 1
    /\ res.val[1].val.numeric_stats["spend"].count = 2

(***************************************************************************)
(* The three passes of main, run and re-run in any order on one loaded     *)
(* table: overall, by page_id, by page_id and ad_id.  out holds the        *)
(* implementation, the column lists main computed once, the result each    *)
(* pass gave when last run, and the passes that have been run again.       *)
(***************************************************************************)
PassNames == {"overall", "by_page", "by_page_ad"}
PassRows == [page_id : {Blank, TxtSpA}, ad_id : {TxtA}, spend : {Blank, TxtE4x1}]

\* src/src/pure_python_stats.py, main: the overall dict
overall_pass(rs, cs) ==
    LET num == compute_numeric_stats(rs, cs.numeric)
    IN  IF num.exc # "none" THEN num
        ELSE Ok([total_rows |-> Len(rs),
                 numeric |-> num.val,
                 categorical |-> compute_categorical_stats(rs, cs.categorical)])

\* src/src/pure_python_stats.py, main: group_and_compute, then stringify_keys
group_pass(rs, keys, cs) ==
    LET g == group_and_compute(rs, keys, cs.numeric, cs.categorical)
    IN  IF g.exc # "none" THEN g ELSE Ok(stringify_keys(g.val))

\* src/src/pandas_stats.py, main: the overall dict
pandas_overall_pass(d, cs, tie) ==
    LET num == compute_numeric_stats_pandas(d, cs.numeric)
    IN  IF num.exc # "none" THEN num
        ELSE Ok([total_rows |-> Len(d.data),
                 numeric |-> num.val,
                 categorical |-> compute_categorical_stats_pandas(d, cs.categorical, tie)])

\* src/src/pandas_stats.py, main: group_and_compute_pandas, then stringify_keys
pandas_group_pass(d, keys, cs, tie) ==
    LET g == group_and_compute_pandas(d, keys, cs.numeric, cs.categorical, tie)
    IN  IF g.exc # "none" THEN g ELSE Ok(stringify_keys(g.val))

InitPasses ==
    /\ \E rs \in SeqsUpTo(PassRows, MaxPassRows) \ {<<>>}, impl \in {"pure", "pandas"} :
          /\ columns = GroupHeader
          /\ rows = rs
          /\ df = ReadCsv(GroupHeader, rs)
          /\ out = [impl |-> impl,
                    cols |-> IF impl = "pure"
                             THEN detect_column_types(GroupHeader, rs)
                             ELSE pandas_detect_column_types(GroupHeader,
                                                             ReadCsv(GroupHeader, rs)),
                    last |-> [p \in PassNames |-> NotRun],
                    again |-> {}]
    /\ op = NoCall
    /\ res = Ok(<<>>)
    /\ grouped = <<>>
    /\ tieAway = {}
    /\ tieOrder \in TieOrders

\* out once pass p has given result r
Recorded(p, r) ==
    [out EXCEPT !.last[p] = r,
                !.again = IF out.last[p] # NotRun THEN @ \cup {p} ELSE @]

OverallPass ==
    /\ op' = Call("overall", out.impl, <<>>, <<>>)
    /\ res' = IF out.impl = "pure" THEN overall_pass(rows, out.cols)
              ELSE pandas_overall_pass(df, out.cols, tieOrder)
    /\ out' = Recorded("overall", res')
    /\ UNCHANGED <<columns, rows, df, tieAway, tieOrder, grouped>>

ByPagePass ==
    /\ "page_id" \in Range(columns)
    /\ op' = Call("by_page", out.impl, <<"page_id">>, <<>>)
    /\ res' = IF out.impl = "pure" THEN group_pass(rows, <<"page_id">>, out.cols)
              ELSE pandas_group_pass(df, <<"page_id">>, out.cols, tieOrder)
    /\ df' = IF out.impl = "pure" THEN df ELSE FrameAfterGroup(df, <<"page_id">>)
    /\ out' = Recorded("by_page", res')
    /\ UNCHANGED <<columns, rows, tieAway, tieOrder, grouped>>

ByPageAdPass ==
    /\ "page_id" \in Range(columns) /\ "ad_id" \in Range(columns)
    /\ op' = Call("by_page_ad", out.impl, <<"page_id", "ad_id">>, <<>>)
    /\ res' = IF out.impl = "pure" THEN group_pass(rows, <<"page_id", "ad_id">>, out.cols)
              ELSE pandas_group_pass(df, <<"page_id", "ad_id">>, out.cols, tieOrder)
    /\ df' = IF out.impl = "pure" THEN df ELSE FrameAfterGroup(df, <<"page_id", "ad_id">>)
    /\ out' = Recorded("by_page_ad", res')
    /\ UNCHANGED <<columns, rows, tieAway, tieOrder, grouped>>

NextPasses ==
    \/ OverallPass
    \/ ByPagePass
    \/ ByPageAdPass

SpecPasses == InitPasses /\ [][NextPasses]_vars

GroupedPassRan == op.impl = "pure" /\ op.fn \in {"by_page", "by_page_ad"}

\* the records of the group serialized under key text
GroupRecords(text) ==
    {i \in 1..Len(rows) : PipeJoined(NormalizedKey(rows[i], op.keys)) = text}

\* column c has no non-blank cell that parses among the records I
NoParsableCell(I, c) ==
    \A i \in I : Strip(rows[i][c]) = <<>> \/ ~ParseFloat(rows[i][c]).ok

\* C13: the column lists are those of the whole table; every Group Result
\* holds a numeric bundle for each of its numeric columns and a categorical
\* bundle for each of its categorical columns, and no call raises; a numeric
\* column without a non-blank parsable cell in a group has there the bundle
\* count = 0 with mean, median, min, max and std_dev all None.
C13_WholeTableColumns ==
    GroupedPassRan =>
        /\ out.cols = detect_column_types(columns, rows)
        /\ res.exc = "none"
        /\ \A j \in 1..Len(res.val) :
              /\ DOMAIN res.val[j].val.numeric_stats = Range(out.cols.numeric)
              /\ DOMAIN res.val[j].val.categorical_stats = Range(out.cols.categorical)
              /\ \A c \in Range(out.cols.numeric) :
                    NoParsableCell(GroupRecords(res.val[j].key), c) =>
                        res.val[j].val.numeric_stats[c] = EmptyNumericBundle

\* one group has a value of the numeric column spend and another has none
C13_Witness ==
    /\ GroupedPassRan
    /\ res.exc = "none"
    /\ "spend" \in Range(out.cols.numeric)
    /\ \E j, k \in 1..Len(res.val) :
          /\ res.val[j].val.numeric_stats["spend"].count = 1
          /\ res.val[k].val.group_size = 1
          /\ res.val[k].val.numeric_stats["spend"] = EmptyNumericBundle

(***************************************************************************)
(* One run of main of src/src/pure_python_stats.py, step by step: load,    *)
(* classify, then for each document compute it and save it.  out holds the *)
(* position of the run, the column lists, the documents save_json was      *)
(* called for, those it wrote, and how the run ended.  Whether a write     *)
(* succeeds is up to the file system.                                      *)
(***************************************************************************)
Docs == <<"overall", "by_page", "by_page_ad">>
MainHeaders == {GroupHeader, <<"ad_id", "spend">>}

MainCells(c) ==
    CASE c = "page_id" -> {Blank, TxtSpA}
      [] c = "ad_id" -> {TxtA}
      [] OTHER -> {Blank, TxtE4x1, TxtNan}

MainRows(hd) ==
    {r \in [Range(hd) -> {Blank, TxtSpA, TxtA, TxtE4x1, TxtNan}] :
        \A c \in Range(hd) : r[c] \in MainCells(c)}

InitMain ==
    /\ \E hd \in MainHeaders : \E rs \in SeqsUpTo(MainRows(hd), MaxPassRows) :
          /\ columns = hd
          /\ rows = rs
          /\ df = ReadCsv(hd, rs)
    /\ out = [pc |-> "load",
              cols |-> [numeric |-> <<>>, categorical |-> <<>>],
              attempted |-> {},
              written |-> {},
              status |-> "running"]
    /\ op = NoCall
    /\ res = Ok(<<>>)
    /\ grouped = <<>>
    /\ tieAway = {}
    /\ tieOrder = "first"

\* the run goes on at position pc
Goto(pc) == [out EXCEPT !.pc = pc]

\* the run is over: "exit" (sys.exit(1)), "raised" (an exception left main)
\* or "success" (the closing message was printed)
Stop(status) == [out EXCEPT !.pc = "end", !.status = status]

\* save_json(data, filename): the exception of a failed write is caught and
\* printed, and the call returns as after a write
save_json(doc, wrote, next) ==
    [out EXCEPT !.pc = next,
                !.attempted = @ \cup {doc},
                !.written = IF wrote THEN @ \cup {doc} ELSE @]

\* the step after computing a document: save it, or let the exception out
AfterCompute(r, save) == IF r.exc # "none" THEN Stop("raised") ELSE Goto(save)

MainLoad ==
    /\ out.pc = "load"
    /\ op' = Call("load_rows", "pure", <<>>, <<>>)
    /\ out' = IF rows = <<>> THEN Stop("exit") ELSE Goto("classify")
    /\ UNCHANGED <<columns, rows, df, tieAway, tieOrder, res, grouped>>

MainClassify ==
    /\ out.pc = "classify"
    /\ op' = Call("detect_column_types", "pure", <<>>, <<>>)
    /\ res' = Ok(detect_column_types(columns, rows))
    /\ out' = IF res'.val.numeric = <<>> /\ res'.val.categorical = <<>>
              THEN Stop("exit")
              ELSE [out EXCEPT !.pc = "overall", !.cols = res'.val]
    /\ UNCHANGED <<columns, rows, df, tieAway, tieOrder, grouped>>

MainOverall ==
    /\ out.pc = "overall"
    /\ op' = Call("overall", "pure", <<>>, <<>>)
    /\ res' = overall_pass(rows, out.cols)
    /\ out' = AfterCompute(res', "save_overall")
    /\ UNCHANGED <<columns, rows, df, tieAway, tieOrder, grouped>>

SaveOverall ==
    /\ out.pc = "save_overall"
    /\ op' = Call("save_json", "pure", <<>>, <<>>)
    /\ \E wrote \in BOOLEAN : out' = save_json("overall", wrote, "by_page")
    /\ UNCHANGED <<columns, rows, df, tieAway, tieOrder, res, grouped>>

MainByPage ==
    /\ out.pc = "by_page"
    /\ IF "page_id" \in Range(columns)
       THEN /\ op' = Call("by_page", "pure", <<"page_id">>, <<>>)
            /\ res' = group_pass(rows, <<"page_id">>, out.cols)
            /\ out' = AfterCompute(res', "save_by_page")
       ELSE /\ out' = Goto("by_page_ad")
            /\ UNCHANGED <<op, res>>
    /\ UNCHANGED <<columns, rows, df, tieAway, tieOrder, grouped>>

SaveByPage ==
    /\ out.pc = "save_by_page"
    /\ op' = Call("save_json", "pure", <<>>, <<>>)
    /\ \E wrote \in BOOLEAN : out' = save_json("by_page", wrote, "by_page_ad")
    /\ UNCHANGED <<columns, rows, df, tieAway, tieOrder, res, grouped>>

MainByPageAd ==
    /\ out.pc = "by_page_ad"
    /\ IF "page_id" \in Range(columns) /\ "ad_id" \in Range(columns)
       THEN /\ op' = Call("by_page_ad", "pure", <<"page_id", "ad_id">>, <<>>)
            /\ res' = group_pass(rows, <<"page_id", "ad_id">>, out.cols)
            /\ out' = AfterCompute(res', "save_by_page_ad")
       ELSE /\ out' = Goto("finish")
            /\ UNCHANGED <<op, res>>
    /\ UNCHANGED <<columns, rows, df, tieAway, tieOrder, grouped>>

SaveByPageAd ==
    /\ out.pc = "save_by_page_ad"
    /\ op' = Call("save_json", "pure", <<>>, <<>>)
    /\ \E wrote \in BOOLEAN : out' = save_json("by_page_ad", wrote, "finish")
    /\ UNCHANGED <<columns, rows, df, tieAway, tieOrder, res, grouped>>

\* print("All statistics computed and saved successfully!")
MainFinish ==
    /\ out.pc = "finish"
    /\ op' = Call("main", "pure", <<>>, <<>>)
    /\ out' = Stop("success")
    /\ UNCHANGED <<columns, rows, df, tieAway, tieOrder, res, grouped>>

NextMain ==
    \/ MainLoad
    \/ MainClassify
    \/ MainOverall
    \/ SaveOverall
    \/ MainByPage
    \/ SaveByPage
    \/ MainByPageAd
    \/ SaveByPageAd
    \/ MainFinish

SpecMain == InitMain /\ [][NextMain]_vars

(***************************************************************************)
(* C12: a run completes or fails outright.                                 *)
(***************************************************************************)
\* document Docs[i] was attempted and not written
Unwritten(i) == Docs[i] \in out.attempted \ out.written

\* C12: no run ends reporting success while a document it attempted was not
\* written, and a document that failed to be written is not followed by a
\* later document that is written.
C12_AllOrNothing ==
    /\ out.status = "success" => out.attempted \subseteq out.written
    /\ \A i, j \in 1..Len(Docs) : (i < j /\ Unwritten(i)) => Docs[j] \notin out.written

====
